---- MODULE Spec2Model ----
(***************************************************************************)
(* A model of tardis_client/tardis_client.py: TardisClient.replay, the     *)
(* async generator that validates a replay request and then walks the      *)
(* cache slice by slice, and TardisClient._validate_payload.               *)
(*                                                                         *)
(* Python values are modelled with their type: a str or bytes value is a   *)
(* sequence of one-character strings, so that slicing, line splitting and  *)
(* parsing are computed position by position as the code computes them.    *)
(***************************************************************************)
EXTENDS Integers, Sequences, FiniteSets, TLC

(***************************************************************************)
(* Bounds of the model.                                                    *)
(***************************************************************************)
\* the cache horizon: the producer has slices for minutes 0 .. MaxSlices - 1
\* after BaseDate, and to_date ranges up to minute MaxSlices
MaxSlices == 3

(***************************************************************************)
(* Program constants.                                                      *)
(***************************************************************************)
DATE_MESSAGE_SPLIT_INDEX == 28

\* timedelta(seconds=60), the width of a slice
SLICE_SECONDS == 60

\* "%Y-%m-%dT%H:%M:%S.%f": %f takes one to six digits
MaxFractionDigits == 6

(***************************************************************************)
(* Sequences of characters with Python's slice semantics (0-based, bounds  *)
(* clamped to the length).                                                 *)
(***************************************************************************)
Min(a, b) == IF a < b THEN a ELSE b

\* s[a:b]
Slice(s, a, b) == SubSeq(s, Min(a, Len(s)) + 1, Min(b, Len(s)))

\* s[a:]
SliceFrom(s, a) == SubSeq(s, Min(a, Len(s)) + 1, Len(s))

DigitChars == <<"0", "1", "2", "3", "4", "5", "6", "7", "8", "9">>

IsDigit(ch) == \E i \in 1..10 : DigitChars[i] = ch

DigitVal(ch) == (CHOOSE i \in 1..10 : DigitChars[i] = ch) - 1

AllDigits(s) == \A i \in 1..Len(s) : IsDigit(s[i])

RECURSIVE ToNat(_)
ToNat(s) == IF Len(s) = 0 THEN 0
            ELSE 10 * ToNat(SubSeq(s, 1, Len(s) - 1)) + DigitVal(s[Len(s)])

\* the number of digits of s starting at index pos (1-based), at most maxd
RECURSIVE NumDigits(_, _, _)
NumDigits(s, pos, maxd) ==
    IF maxd = 0 \/ pos > Len(s) \/ ~IsDigit(s[pos]) THEN 0
    ELSE 1 + NumDigits(s, pos + 1, maxd - 1)

\* the character at index pos (1-based) is ch
CharAt(s, pos, ch) == pos <= Len(s) /\ s[pos] = ch

\* two decimal digits of n
TwoDigits(n) == <<DigitChars[(n \div 10) + 1], DigitChars[(n % 10) + 1]>>

(***************************************************************************)
(* datetime.  A datetime is its count of seconds since 1970-01-01T00:00:00 *)
(* (for an aware datetime, of UTC), its microseconds, and whether it       *)
(* carries a UTC offset.                                                   *)
(***************************************************************************)
IsLeap(y) == (y % 4 = 0 /\ y % 100 /= 0) \/ y % 400 = 0

DaysInMonth(y, m) ==
    IF m = 2 THEN (IF IsLeap(y) THEN 29 ELSE 28)
    ELSE IF m \in {4, 6, 9, 11} THEN 30 ELSE 31

\* days from 1970-01-01 to y-m-d in the proleptic Gregorian calendar
DaysFromCivil(y, m, d) ==
    LET yy  == IF m <= 2 THEN y - 1 ELSE y
        era == yy \div 400
        yoe == yy - era * 400
        mp  == IF m > 2 THEN m - 3 ELSE m + 9
        doy == (153 * mp + 2) \div 5 + d - 1
        doe == yoe * 365 + yoe \div 4 - yoe \div 100 + doy
    IN  era * 146097 + doe - 719468

ValidDate(y, m, d) == y \in 1..9999 /\ m \in 1..12 /\ d \in 1..DaysInMonth(y, m)

ValidTime(h, mi, s) == h \in 0..23 /\ mi \in 0..59 /\ s \in 0..59

Datetime(y, m, d, h, mi, s, us, offset, aware) ==
    [secs  |-> DaysFromCivil(y, m, d) * 86400 + h * 3600 + mi * 60 + s - offset,
     us    |-> us,
     aware |-> aware]

NoDatetime == [secs |-> 0, us |-> 0, aware |-> FALSE]

\* current_slice_date + timedelta(seconds=60)
AddSeconds(dt, n) == [dt EXCEPT !.secs = dt.secs + n]

\* a < b on datetimes that are both naive or both aware
DatetimeLess(a, b) == a.secs < b.secs \/ (a.secs = b.secs /\ a.us < b.us)

\* comparing a naive with an aware datetime raises TypeError
Comparable(a, b) == a.aware = b.aware

\* line 108 with > for >=
DatetimeGreaterEqual_strict(a, b) == DatetimeLess(b, a)

\* a >= b, the test of line 108
DatetimeGreaterEqual(a, b) == ~DatetimeLess(a, b)

\* the while loop with <= for <
InRange_inclusive(cursor, to) == ~DatetimeLess(to, cursor)

\* current_slice_date < to_date, the test of the while loop
InRange(cursor, to) == DatetimeLess(cursor, to)

(***************************************************************************)
(* datetime.strptime(text, "%Y-%m-%dT%H:%M:%S.%f"): a four-digit year, one *)
(* or two digits for each of month, day, hour, minute and second, one to   *)
(* six digits of fraction (right-padded with zeros to microseconds), the   *)
(* literal separators between them, and nothing after the fraction.        *)
(* ok = FALSE stands for the ValueError strptime raises.                   *)
(***************************************************************************)
Strptime(s) ==
    LET nY == NumDigits(s, 1, 4)
        pm == nY + 2
        nm == NumDigits(s, pm, 2)
        pd == pm + nm + 1
        nd == NumDigits(s, pd, 2)
        pH == pd + nd + 1
        nH == NumDigits(s, pH, 2)
        pM == pH + nH + 1
        nM == NumDigits(s, pM, 2)
        pS == pM + nM + 1
        nS == NumDigits(s, pS, 2)
        pf == pS + nS + 1
        nf == NumDigits(s, pf, MaxFractionDigits)
        Num(p, n) == ToNat(SubSeq(s, p, p + n - 1))
        shape == /\ nY = 4 /\ CharAt(s, pm - 1, "-")
                 /\ nm >= 1 /\ CharAt(s, pd - 1, "-")
                 /\ nd >= 1 /\ CharAt(s, pH - 1, "T")
                 /\ nH >= 1 /\ CharAt(s, pM - 1, ":")
                 /\ nM >= 1 /\ CharAt(s, pS - 1, ":")
                 /\ nS >= 1 /\ CharAt(s, pf - 1, ".")
                 /\ nf >= 1 /\ pf + nf = Len(s) + 1
    IN  IF /\ shape
           /\ ValidDate(Num(1, nY), Num(pm, nm), Num(pd, nd))
           /\ ValidTime(Num(pH, nH), Num(pM, nM), Num(pS, nS))
        THEN [ok |-> TRUE,
              dt |-> Datetime(Num(1, nY), Num(pm, nm), Num(pd, nd),
                              Num(pH, nH), Num(pM, nM), Num(pS, nS),
                              Num(pf, nf) * 10 ^ (MaxFractionDigits - nf), 0, FALSE)]
        ELSE [ok |-> FALSE, dt |-> NoDatetime]

(***************************************************************************)
(* datetime.fromisoformat(value).  A value that is not a str raises        *)
(* TypeError.  The strings of the model are YYYY-MM-DD, optionally         *)
(* followed by one separator character and HH, HH:MM or HH:MM:SS, and      *)
(* after HH:MM:SS optionally by a UTC offset +HH:MM or -HH:MM; they carry  *)
(* no fraction of a second.  Anything else raises ValueError.              *)
(***************************************************************************)
FromIsoFormat(v) ==
    IF v.type /= "str" THEN [exc |-> "TypeError", dt |-> NoDatetime]
    ELSE
    LET s == v.chars
        n == Len(s)
        Two(p) == p + 1 <= n /\ IsDigit(s[p]) /\ IsDigit(s[p + 1])
        Num(p, k) == ToNat(SubSeq(s, p, p + k - 1))
        date_ok == /\ n >= 10 /\ AllDigits(SubSeq(s, 1, 4)) /\ s[5] = "-"
                   /\ Two(6) /\ s[8] = "-" /\ Two(9)
        aware   == n = 25
        time_ok == \/ n = 10
                   \/ n = 13 /\ Two(12)
                   \/ n = 16 /\ Two(12) /\ s[14] = ":" /\ Two(15)
                   \/ /\ n \in {19, 25}
                      /\ Two(12) /\ s[14] = ":" /\ Two(15) /\ s[17] = ":" /\ Two(18)
        tz_ok   == aware => /\ s[20] \in {"+", "-"} /\ Two(21) /\ s[23] = ":" /\ Two(24)
                            /\ Num(21, 2) \in 0..23 /\ Num(24, 2) \in 0..59
        h  == IF n >= 13 THEN Num(12, 2) ELSE 0
        mi == IF n >= 16 THEN Num(15, 2) ELSE 0
        sc == IF n >= 19 THEN Num(18, 2) ELSE 0
        offset == IF aware
                  THEN (IF s[20] = "-" THEN -1 ELSE 1) * (Num(21, 2) * 3600 + Num(24, 2) * 60)
                  ELSE 0
    IN  IF /\ date_ok /\ time_ok /\ tz_ok
           /\ ValidDate(Num(1, 4), Num(6, 2), Num(9, 2))
           /\ ValidTime(h, mi, sc)
        THEN [exc |-> "none",
              dt  |-> Datetime(Num(1, 4), Num(6, 2), Num(9, 2), h, mi, sc, 0, offset, aware)]
        ELSE [exc |-> "ValueError", dt |-> NoDatetime]

(***************************************************************************)
(* json.loads(bytes).  The JSON texts of the model are an integer or an    *)
(* object with at most one member whose value is an integer, with          *)
(* whitespace only around the whole text; any other text is invalid.       *)
(* ok = FALSE stands for json.JSONDecodeError, a ValueError.               *)
(***************************************************************************)
IsWhitespace(ch) == ch \in {" ", "\n", "\t", "\r"}

RECURSIVE Strip(_)
Strip(s) ==
    IF Len(s) = 0 THEN s
    ELSE IF IsWhitespace(s[1]) THEN Strip(Tail(s))
    ELSE IF IsWhitespace(s[Len(s)]) THEN Strip(SubSeq(s, 1, Len(s) - 1))
    ELSE s

IsJsonInt(t) == Len(t) >= 1 /\ AllDigits(t) /\ (Len(t) = 1 \/ t[1] /= "0")

NoJsonValue == [type |-> "none", size |-> 0, key |-> <<>>, n |-> 0]

JsonLoads(s) ==
    LET t == Strip(s)
        n == Len(t)
        \* the closing quote of the member name that opens at index 2
        closing == {q \in 3..n : t[q] = "\"" /\ \A i \in 3..(q - 1) : t[i] \notin {"\"", "\\"}}
        q == CHOOSE x \in closing : TRUE
    IN  IF IsJsonInt(t)
        THEN [ok |-> TRUE, value |-> [type |-> "int", size |-> 0, key |-> <<>>, n |-> ToNat(t)]]
        ELSE IF t = <<"{", "}">>
        THEN [ok |-> TRUE, value |-> [type |-> "dict", size |-> 0, key |-> <<>>, n |-> 0]]
        ELSE IF /\ n >= 6 /\ t[1] = "{" /\ t[2] = "\"" /\ t[n] = "}"
                /\ closing /= {}
                /\ CharAt(t, q + 1, ":")
                /\ IsJsonInt(SubSeq(t, q + 2, n - 1))
        THEN [ok |-> TRUE,
              value |-> [type |-> "dict", size |-> 1, key |-> SubSeq(t, 3, q - 1),
                         n |-> ToNat(SubSeq(t, q + 2, n - 1))]]
        ELSE [ok |-> FALSE, value |-> NoJsonValue]

(***************************************************************************)
(* Python values of the request.  A value carries its type; chars is the   *)
(* text of a str and empty for every other type.                           *)
(***************************************************************************)
Str(chars) == [type |-> "str", chars |-> chars]

None == [type |-> "NoneType", chars |-> <<>>]

\* a value that is neither None nor a str (an int, say)
NotAString == [type |-> "int", chars |-> <<>>]

\* Channel(name, symbols)
Channel(name, symbols) == [name |-> name, symbols |-> symbols]

\* a value of a given type holding items (a list, a tuple); None holds none
Py(type, items) == [type |-> type, items |-> items]

NoSymbols == Py("NoneType", <<>>)

Symbol(text) == [type |-> "str", text |-> text]

(***************************************************************************)
(* tardis_client.consts: the known exchanges and the channels registered   *)
(* for each.                                                               *)
(***************************************************************************)
EXCHANGES == {"bitmex", "coinbase"}

EXCHANGE_CHANNELS_INFO ==
    [e \in EXCHANGES |-> IF e = "bitmex" THEN {"trade", "orderBookL2"} ELSE {"match"}]

DEFAULT_CACHE_DIR == "/tmp/.tardis-cache"

(***************************************************************************)
(* tardis_client.handy.get_slice_cache_path: a pure function of its        *)
(* arguments that keeps the exchange, the slice start at minute            *)
(* granularity and the filters apart.                                      *)
(***************************************************************************)
get_slice_cache_path(cache_dir, exchange, date, filters) ==
    [cache_dir |-> cache_dir,
     exchange  |-> exchange,
     minute    |-> date.secs \div SLICE_SECONDS,
     filters   |-> filters]

(***************************************************************************)
(* TardisClient.__try_parse_as_iso_date: True, False, or the TypeError of   *)
(* fromisoformat, which the except ValueError clause does not catch.       *)
(***************************************************************************)
_try_parse_as_iso_date(date_string) ==
    LET r == FromIsoFormat(date_string)
    IN  [exc   |-> IF r.exc = "TypeError" THEN "TypeError" ELSE "none",
         value |-> r.exc = "none"]

(***************************************************************************)
(* TardisClient._validate_payload.  The outcome is the exception raised    *)
(* ("none" when validation returns) and the rule of the method that        *)
(* raised it: 1 exchange, 2 from_date, 3 to_date, 4 date order, 5 filters  *)
(* type, 6 filter name, 7 filter symbols.                                  *)
(***************************************************************************)
Outcome(exc, rule) == [exc |-> exc, rule |-> rule]

Passed == Outcome("none", 0)

\* the test on symbols taking a tuple for a list
BadSymbols_any_sequence(symbols) ==
    \/ symbols.type \notin {"list", "tuple"}
    \/ \E i \in 1..Len(symbols.items) : symbols.items[i].type /= "str"

\* isinstance(symbols, list) is False or any symbol is not a str
BadSymbols(symbols) ==
    \/ symbols.type /= "list"
    \/ \E i \in 1..Len(symbols.items) : symbols.items[i].type /= "str"

\* the for loop over filters, from the i-th filter on
RECURSIVE validate_filters(_, _, _)
validate_filters(exchange, items, i) ==
    IF i > Len(items) THEN Passed
    ELSE IF items[i].name \notin EXCHANGE_CHANNELS_INFO[exchange]
    THEN Outcome("ValueError", 6)
    ELSE IF items[i].symbols.type = "NoneType"
    THEN validate_filters(exchange, items, i + 1)
    ELSE IF BadSymbols(items[i].symbols)
    THEN Outcome("ValueError", 7)
    ELSE validate_filters(exchange, items, i + 1)

_validate_payload(exchange, from_date, to_date, filters) ==
    IF exchange \notin EXCHANGES
    \* the message of the ValueError is an f-string that reads sEXCHANGES,
    \* a name that is not defined: evaluating it raises NameError
    THEN Outcome("NameError", 1)
    ELSE IF from_date.type = "NoneType" THEN Outcome("ValueError", 2)
    ELSE IF _try_parse_as_iso_date(from_date).exc /= "none"
    THEN Outcome(_try_parse_as_iso_date(from_date).exc, 2)
    ELSE IF _try_parse_as_iso_date(from_date).value = FALSE THEN Outcome("ValueError", 2)
    ELSE IF to_date.type = "NoneType" THEN Outcome("ValueError", 3)
    ELSE IF _try_parse_as_iso_date(to_date).exc /= "none"
    THEN Outcome(_try_parse_as_iso_date(to_date).exc, 3)
    ELSE IF _try_parse_as_iso_date(to_date).value = FALSE THEN Outcome("ValueError", 3)
    ELSE IF ~Comparable(FromIsoFormat(from_date).dt, FromIsoFormat(to_date).dt)
    THEN Outcome("TypeError", 4)
    ELSE IF DatetimeGreaterEqual(FromIsoFormat(from_date).dt, FromIsoFormat(to_date).dt)
    THEN Outcome("ValueError", 4)
    ELSE IF filters.type = "NoneType" THEN Passed
    ELSE IF filters.type /= "list" THEN Outcome("ValueError", 5)
    ELSE validate_filters(exchange, filters.items, 1)

(***************************************************************************)
(* The slice decoder: the lines of a file and the Response of a line.      *)
(***************************************************************************)
\* for line in file: the lines of the content, each with its newline
RECURSIVE SplitLines(_)
SplitLines(bytes) ==
    IF Len(bytes) = 0 THEN <<>>
    ELSE LET ends == {i \in 1..Len(bytes) : bytes[i] = "\n"}
             nl   == IF ends = {} THEN Len(bytes)
                     ELSE CHOOSE i \in ends : \A j \in ends : i <= j
         IN  <<SubSeq(bytes, 1, nl)>> \o SplitLines(SubSeq(bytes, nl + 1, Len(bytes)))

\* the two fields of a Response: a parsed value or raw bytes
Parsed(dt, json) == [type |-> "parsed", dt |-> dt, json |-> json, bytes |-> <<>>]

Raw(bytes) == [type |-> "bytes", dt |-> NoDatetime, json |-> NoJsonValue, bytes |-> bytes]

Response(local_timestamp, message) ==
    [local_timestamp |-> local_timestamp, message |-> message]

\* the timestamp text without the adjustment by 2
TimestampSegment_unadjusted(line) == Slice(line, 0, DATE_MESSAGE_SPLIT_INDEX)

\* the timestamp text strptime is given: line[0 : DATE_MESSAGE_SPLIT_INDEX - 2]
TimestampSegment(line) == Slice(line, 0, DATE_MESSAGE_SPLIT_INDEX - 2)

\* the payload cut at the delimiter, not after it
PayloadSegment_from_delimiter(line) == SliceFrom(line, DATE_MESSAGE_SPLIT_INDEX)

\* the payload: line[DATE_MESSAGE_SPLIT_INDEX + 1 :]
PayloadSegment(line) == SliceFrom(line, DATE_MESSAGE_SPLIT_INDEX + 1)

\* the raw timestamp: line[0 : DATE_MESSAGE_SPLIT_INDEX]
RawTimestampSegment(line) == Slice(line, 0, DATE_MESSAGE_SPLIT_INDEX)

\* len(line) == 0: continue
SkipLine(line) == Len(line) = 0

\* strptime or json.loads raises ValueError on the line
DecodeFails(line, decode_response) ==
    decode_response /\ (~Strptime(TimestampSegment(line)).ok \/ ~JsonLoads(PayloadSegment(line)).ok)

\* the Response yielded for a line
DecodeLine(line, decode_response) ==
    IF decode_response
    THEN Response(Parsed(Strptime(TimestampSegment(line)).dt, NoJsonValue),
                  Parsed(NoDatetime, JsonLoads(PayloadSegment(line)).value))
    ELSE Response(Raw(RawTimestampSegment(line)), Raw(PayloadSegment(line)))

(***************************************************************************)
(* The inputs of the model: the texts of slice lines and of date strings.  *)
(***************************************************************************)
\* the 28-character timestamp of a record, 2021-01-01T00:00:00.1234567Z
TS_A ==
    <<"2", "0", "2", "1", "-", "0", "1", "-", "0", "1", "T", "0", "0",
      ":", "0", "0", ":", "0", "0", ".", "1", "2", "3", "4", "5", "6",
      "7", "Z">>

\* 2021-01-01T00:00:01.0000000Z
TS_B ==
    <<"2", "0", "2", "1", "-", "0", "1", "-", "0", "1", "T", "0", "0",
      ":", "0", "0", ":", "0", "1", ".", "0", "0", "0", "0", "0", "0",
      "0", "Z">>

\* 2021-01-01T00:00:02.5000000Z
TS_C ==
    <<"2", "0", "2", "1", "-", "0", "1", "-", "0", "1", "T", "0", "0",
      ":", "0", "0", ":", "0", "2", ".", "5", "0", "0", "0", "0", "0",
      "0", "Z">>

\* a 26-character timestamp, 2021-01-01T00:00:00.123456
TS_26 ==
    <<"2", "0", "2", "1", "-", "0", "1", "-", "0", "1", "T", "0", "0",
      ":", "0", "0", ":", "0", "0", ".", "1", "2", "3", "4", "5", "6">>

\* 28 characters that are no timestamp (a space for the T)
TS_BAD ==
    <<"2", "0", "2", "1", "-", "0", "1", "-", "0", "1", " ", "0", "0",
      ":", "0", "0", ":", "0", "4", ".", "0", "0", "0", "0", "0", "0",
      "0", "Z">>

\* the JSON text {"a":1}
JSON_A ==
    <<"{", "\"", "a", "\"", ":", "1", "}">>

\* the JSON text {"b":2}
JSON_B ==
    <<"{", "\"", "b", "\"", ":", "2", "}">>

\* the JSON text 3
JSON_C ==
    <<"3">>

\* a text that is not JSON, {"a":
JSON_BAD ==
    <<"{", "\"", "a", "\"", ":">>

\* a str that is no ISO date
GARBAGE ==
    <<"y", "e", "s", "t", "e", "r", "d", "a", "y">>

\* 2021-01-01T00: the date and hour of every date string of the model
DATE_PREFIX ==
    <<"2", "0", "2", "1", "-", "0", "1", "-", "0", "1", "T", "0", "0",
      ":">>

\* +00:00
UTC_OFFSET ==
    <<"+", "0", "0", ":", "0", "0">>

\* a record line: timestamp prefix, one delimiter, payload, newline
RecordLine(timestamp, payload) ==
    [timestamp |-> timestamp, delimiter |-> <<" ">>, payload |-> payload \o <<"\n">>]

LineBytes(r) == r.timestamp \o r.delimiter \o r.payload

REC_A == RecordLine(TS_A, JSON_A)

REC_B == RecordLine(TS_B, JSON_B)

REC_C == RecordLine(TS_C, JSON_C)

\* the line of the decoding example: a 26-character timestamp prefix
REC_26 == RecordLine(TS_26, JSON_A)

REC_BAD_JSON == RecordLine(TS_B, JSON_BAD)

REC_BAD_TS == RecordLine(TS_BAD, JSON_A)

RecordLines == {REC_A, REC_B, REC_C, REC_26, REC_BAD_JSON, REC_BAD_TS}

\* a line of zero characters before its newline
EMPTY_LINE == <<"\n">>

\* the contents a slice file may have (decompressed)
FileContents ==
    << LineBytes(REC_A) \o LineBytes(REC_B) \o LineBytes(REC_C),
       << >>,
       EMPTY_LINE \o LineBytes(REC_A),
       LineBytes(REC_26),
       LineBytes(REC_A) \o LineBytes(REC_BAD_JSON) \o LineBytes(REC_B),
       LineBytes(REC_BAD_TS) \o LineBytes(REC_A),
       LineBytes(REC_A) >>

(***************************************************************************)
(* The lines of the files of the model and what the body of the for loop   *)
(* does with each, tabulated once: skip is the test of line 66, fails      *)
(* tells that lines 71-74 raise ValueError, response is the Response       *)
(* yielded at line 74 or 76 when they do not.                              *)
(***************************************************************************)
LinesOfFile ==
    [bytes \in {FileContents[i] : i \in 1..Len(FileContents)} |-> SplitLines(bytes)] @@ << >>

LinesOfModel ==
    UNION { {LinesOfFile[bytes][j] : j \in 1..Len(LinesOfFile[bytes])} :
              bytes \in DOMAIN LinesOfFile }

LoopBody ==
    [line \in LinesOfModel, decode_response \in BOOLEAN |->
        [skip     |-> SkipLine(line),
         fails    |-> DecodeFails(line, decode_response),
         response |-> DecodeLine(line, decode_response)]] @@ << >>

\* what the exchange's history holds for the slices of the cache horizon:
\* slice k holds content i + k (cyclically), for each starting content i
Feeds ==
    { [k \in 0..(MaxSlices - 1) |-> FileContents[((i + k) % Len(FileContents)) + 1]] :
        i \in 0..(Len(FileContents) - 1) }

\* the date string 2021-01-01T00:mm:ss
IsoDate(minute, second) ==
    Str(DATE_PREFIX \o TwoDigits(minute) \o <<":">> \o TwoDigits(second))

\* the same with a UTC offset
IsoDateUtc(minute, second) ==
    Str(DATE_PREFIX \o TwoDigits(minute) \o <<":">> \o TwoDigits(second) \o UTC_OFFSET)

FromDates ==
    {None, NotAString, Str(GARBAGE), IsoDate(0, 0), IsoDate(0, 30), IsoDate(1, 0),
     IsoDateUtc(0, 0)}

ToDates ==
    {None, NotAString, Str(GARBAGE), IsoDate(0, 0), IsoDate(0, 31)}
        \cup {IsoDate(m, 0) : m \in 1..MaxSlices}

FilterValues ==
    { Py("NoneType", <<>>),
      Py("list", <<>>),
      Py("list", <<Channel("trade", Py("list", <<Symbol("XBTUSD")>>))>>),
      Py("tuple", <<Channel("trade", NoSymbols)>>),
      Py("list", <<Channel("match", NoSymbols)>>),
      Py("list", <<Channel("trade", NoSymbols), Channel("quote", NoSymbols)>>),
      Py("list", <<Channel("trade", Py("str", <<Symbol("X")>>))>>),
      Py("list", <<Channel("trade", Py("list", <<[type |-> "int", text |-> "1"]>>))>>),
      Py("list", <<Channel("quote", Py("str", <<Symbol("X")>>))>>),
      Py("list", <<Channel("trade", Py("tuple", <<Symbol("XBTUSD")>>))>>),
      Py("list", <<Channel("trade", Py("str", <<Symbol("X")>>)), Channel("quote", NoSymbols)>>) }

Requests ==
    [exchange        : {"bitmex", "ftx"},
     from_date       : FromDates,
     to_date         : ToDates,
     filters         : FilterValues,
     decode_response : BOOLEAN]

(***************************************************************************)
(* The state.  Every variable but fs and feed is a function of the replay  *)
(* call: each call of replay is an async generator with its own locals.    *)
(***************************************************************************)
Calls == {1, 2}

VARIABLES
    request,             \* the arguments of the call
    pc,                  \* where the generator stands
    exc,                 \* the exception that ended the generator, or "none"
    from_date,           \* the local from_date after line 37
    to_date,             \* the local to_date after line 38
    current_slice_date,  \* the cursor
    current_slice_path,  \* the path the wait loop found, or NoPath
    file,                \* the gzip file the with statement holds
    messages_count,      \* the lines counted in the current slice
    emitted,             \* the Responses yielded so far, in order
    fs,                  \* the cache directory: path -> content of the file
    feed,                \* what the producer writes for each slice of the horizon
    checks,              \* history: the os.path.isfile calls made, with their result
    opens,               \* history: the gzip.open calls made, in order
    emit_src,            \* history: the slice and the line of each Response
    raised_at,           \* history: the slice and the line an exception was raised on
    failed_rule          \* history: the rule of _validate_payload that raised, or 0

vars == <<request, pc, exc, from_date, to_date, current_slice_date, current_slice_path,
          file, messages_count, emitted, fs, feed, checks, opens, emit_src, raised_at,
          failed_rule>>

NoPath == [cache_dir |-> "", exchange |-> "", minute |-> -1, filters |-> Py("NoneType", <<>>)]

NoFile == [open |-> FALSE, path |-> NoPath, pos |-> 0]

NoLine == [date |-> NoDatetime, line |-> 0]

\* 2021-01-01T00:00:00, the start of the cache horizon
BaseDate == FromIsoFormat(IsoDate(0, 0)).dt

\* the path of the slice at a cursor that is one attribute of the client,
\* shared by its calls
PathToCheck_shared_cursor(c) ==
    get_slice_cache_path(DEFAULT_CACHE_DIR, request[c].exchange, current_slice_date[1],
                         request[c].filters)

\* the path of the slice at the cursor of call c
PathToCheck(c) ==
    get_slice_cache_path(DEFAULT_CACHE_DIR, request[c].exchange, current_slice_date[c],
                         request[c].filters)

\* os.path.isfile(path)
IsFile(path) == path \in DOMAIN fs

\* the lines the open file of call c iterates over
FileLines(c) == LinesOfFile[fs[file[c].path]]

InitWith(active) ==
    /\ \E r \in Requests : request = [c \in Calls |-> r]
    /\ pc = [c \in Calls |-> IF c \in active THEN "start" ELSE "idle"]
    /\ exc = [c \in Calls |-> "none"]
    /\ from_date = [c \in Calls |-> NoDatetime]
    /\ to_date = [c \in Calls |-> NoDatetime]
    /\ current_slice_date = [c \in Calls |-> NoDatetime]
    /\ current_slice_path = [c \in Calls |-> NoPath]
    /\ file = [c \in Calls |-> NoFile]
    /\ messages_count = [c \in Calls |-> 0]
    /\ emitted = [c \in Calls |-> <<>>]
    /\ fs = << >>
    /\ feed \in Feeds
    /\ checks = [c \in Calls |-> {}]
    /\ opens = [c \in Calls |-> <<>>]
    /\ emit_src = [c \in Calls |-> <<>>]
    /\ raised_at = [c \in Calls |-> NoLine]
    /\ failed_rule = [c \in Calls |-> 0]

\* one call of replay, on an empty cache
Init == InitWith({1})

\* the slice loop entered whenever the two dates parse, the other rules left
\* for later
Validate_deferred(c) ==
    /\ pc[c] = "start"
    /\ LET r == request[c]
       IN  IF FromIsoFormat(r.from_date).exc /= "none" \/ FromIsoFormat(r.to_date).exc /= "none"
           THEN /\ pc' = [pc EXCEPT ![c] = "rejected"]
                /\ exc' = [exc EXCEPT ![c] = "ValueError"]
                /\ failed_rule' = [failed_rule EXCEPT ![c] = 2]
                /\ UNCHANGED <<from_date, to_date, current_slice_date>>
           ELSE /\ pc' = [pc EXCEPT ![c] = "loop"]
                /\ from_date' = [from_date EXCEPT ![c] = FromIsoFormat(r.from_date).dt]
                /\ to_date' = [to_date EXCEPT ![c] = FromIsoFormat(r.to_date).dt]
                /\ current_slice_date' =
                       [current_slice_date EXCEPT ![c] = FromIsoFormat(r.from_date).dt]
                /\ UNCHANGED <<exc, failed_rule>>
    /\ UNCHANGED <<request, current_slice_path, file, messages_count, emitted, fs, feed,
                   checks, opens, emit_src, raised_at>>

(***************************************************************************)
(* replay, lines 36-39: the first step of the generator validates the      *)
(* payload, parses the two dates and sets the cursor.                      *)
(***************************************************************************)
Validate(c) ==
    /\ pc[c] = "start"
    /\ LET r == request[c]
           outcome == _validate_payload(r.exchange, r.from_date, r.to_date, r.filters)
       IN  IF outcome.exc /= "none"
           THEN /\ pc' = [pc EXCEPT ![c] = "rejected"]
                /\ exc' = [exc EXCEPT ![c] = outcome.exc]
                /\ failed_rule' = [failed_rule EXCEPT ![c] = outcome.rule]
                /\ UNCHANGED <<from_date, to_date, current_slice_date>>
           ELSE /\ pc' = [pc EXCEPT ![c] = "loop"]
                /\ from_date' = [from_date EXCEPT ![c] = FromIsoFormat(r.from_date).dt]
                /\ to_date' = [to_date EXCEPT ![c] = FromIsoFormat(r.to_date).dt]
                /\ current_slice_date' =
                       [current_slice_date EXCEPT ![c] = FromIsoFormat(r.from_date).dt]
                /\ UNCHANGED <<exc, failed_rule>>
    /\ UNCHANGED <<request, current_slice_path, file, messages_count, emitted, fs, feed,
                   checks, opens, emit_src,
                   raised_at>>

(***************************************************************************)
(* Line 50: while current_slice_date < to_date; lines 81-90 when it is not *)
(***************************************************************************)
LoopTest(c) ==
    /\ pc[c] = "loop"
    /\ IF InRange(current_slice_date[c], to_date[c])
       THEN /\ pc' = [pc EXCEPT ![c] = "check"]
            /\ current_slice_path' = [current_slice_path EXCEPT ![c] = NoPath]
       ELSE /\ pc' = [pc EXCEPT ![c] = "done"]
            /\ UNCHANGED current_slice_path
    /\ UNCHANGED <<request, exc, from_date, to_date, current_slice_date, file,
                   messages_count, emitted, fs, feed, checks, opens, emit_src,
                   raised_at,
                   failed_rule>>

\* the wait loop giving up on a missing file and passing to the next slice
CheckSlice_skip(c) ==
    /\ pc[c] = "check"
    /\ checks' = [checks EXCEPT ![c] = @ \cup
                    {[date    |-> current_slice_date[c],
                      path    |-> PathToCheck(c),
                      found   |-> IsFile(PathToCheck(c)),
                      emitted |-> Len(emitted[c])]}]
    /\ IF IsFile(PathToCheck(c))
       THEN /\ current_slice_path' = [current_slice_path EXCEPT ![c] = PathToCheck(c)]
            /\ pc' = [pc EXCEPT ![c] = "open"]
            /\ UNCHANGED current_slice_date
       ELSE /\ pc' = [pc EXCEPT ![c] = "loop"]
            /\ current_slice_date' =
                   [current_slice_date EXCEPT ![c] = AddSeconds(@, SLICE_SECONDS)]
            /\ UNCHANGED current_slice_path
    /\ UNCHANGED <<request, exc, from_date, to_date, file, messages_count, emitted, fs,
                   feed, opens, emit_src, raised_at,
                   failed_rule>>

(***************************************************************************)
(* Lines 52-62: one turn of the wait loop.  The file is there and the loop *)
(* ends, or the generator goes to sleep.                                   *)
(***************************************************************************)
CheckSlice(c) ==
    /\ pc[c] = "check"
    /\ checks' = [checks EXCEPT ![c] = @ \cup
                    {[date    |-> current_slice_date[c],
                      path    |-> PathToCheck(c),
                      found   |-> IsFile(PathToCheck(c)),
                      emitted |-> Len(emitted[c])]}]
    /\ IF IsFile(PathToCheck(c))
       THEN /\ current_slice_path' = [current_slice_path EXCEPT ![c] = PathToCheck(c)]
            /\ pc' = [pc EXCEPT ![c] = "open"]
       ELSE /\ pc' = [pc EXCEPT ![c] = "sleep"]
            /\ UNCHANGED current_slice_path
    /\ UNCHANGED <<request, exc, from_date, to_date, current_slice_date, file,
                   messages_count, emitted, fs, feed, opens, emit_src,
                   raised_at,
                   failed_rule>>

\* the wait given up after a sleep: a timeout
Wake_give_up(c) ==
    /\ pc[c] = "sleep"
    /\ pc' = [pc EXCEPT ![c] = "raised"]
    /\ exc' = [exc EXCEPT ![c] = "TimeoutError"]
    /\ UNCHANGED <<request, from_date, to_date, current_slice_date,
                   current_slice_path, file, messages_count, emitted, fs, feed, checks,
                   opens, emit_src, raised_at, failed_rule>>

\* await asyncio.sleep(0.3) returns
Wake(c) ==
    /\ pc[c] = "sleep"
    /\ pc' = [pc EXCEPT ![c] = "check"]
    /\ UNCHANGED <<request, exc, from_date, to_date, current_slice_date,
                   current_slice_path, file, messages_count, emitted, fs, feed, checks,
                   opens, emit_src,
                   raised_at,
                   failed_rule>>

\* the file opened for writing: gzip.open(path, "wb") truncates it
OpenSlice_for_writing(c) ==
    /\ pc[c] = "open"
    /\ messages_count' = [messages_count EXCEPT ![c] = 0]
    /\ file' = [file EXCEPT ![c] = [open |-> TRUE, path |-> current_slice_path[c], pos |-> 0]]
    /\ opens' = [opens EXCEPT ![c] =
                    Append(@, [date |-> current_slice_date[c], path |-> current_slice_path[c]])]
    /\ fs' = [fs EXCEPT ![current_slice_path[c]] = << >>]
    /\ pc' = [pc EXCEPT ![c] = "read"]
    /\ UNCHANGED <<request, exc, from_date, to_date, current_slice_date,
                   current_slice_path, emitted, feed, checks, emit_src, raised_at,
                   failed_rule>>

(***************************************************************************)
(* Lines 63-64: messages_count = 0 and gzip.open(current_slice_path).      *)
(***************************************************************************)
OpenSlice(c) ==
    /\ pc[c] = "open"
    /\ messages_count' = [messages_count EXCEPT ![c] = 0]
    /\ file' = [file EXCEPT ![c] = [open |-> TRUE, path |-> current_slice_path[c], pos |-> 0]]
    /\ opens' = [opens EXCEPT ![c] =
                    Append(@, [date |-> current_slice_date[c], path |-> current_slice_path[c]])]
    /\ pc' = [pc EXCEPT ![c] = "read"]
    /\ UNCHANGED <<request, exc, from_date, to_date, current_slice_date,
                   current_slice_path, emitted, fs, feed, checks, emit_src,
                   raised_at,
                   failed_rule>>

\* a line that fails to decode passed over, the loop going on with the next line
ReadLine_skip_malformed(c) ==
    /\ pc[c] = "read"
    /\ file[c].pos < Len(FileLines(c))
    /\ LET line == FileLines(c)[file[c].pos + 1]
           decode_response == request[c].decode_response
       IN  IF LoopBody[line, decode_response].skip \/ LoopBody[line, decode_response].fails
           THEN /\ file' = [file EXCEPT ![c].pos = @ + 1]
                /\ UNCHANGED <<pc, exc, messages_count, emitted, emit_src, raised_at>>
           ELSE /\ messages_count' = [messages_count EXCEPT ![c] = @ + 1]
                /\ file' = [file EXCEPT ![c].pos = @ + 1]
                /\ emitted' = [emitted EXCEPT ![c] =
                                  Append(@, LoopBody[line, decode_response].response)]
                /\ emit_src' = [emit_src EXCEPT ![c] =
                                   Append(@, [date |-> current_slice_date[c],
                                              line |-> file[c].pos + 1])]
                /\ pc' = [pc EXCEPT ![c] = "yield"]
                /\ UNCHANGED <<exc, raised_at>>
    /\ UNCHANGED <<request, from_date, to_date, current_slice_date, current_slice_path,
                   fs, feed, checks, opens,
                   failed_rule>>

(***************************************************************************)
(* Lines 65-76: the next line of the file.  A line of length zero is       *)
(* passed over; otherwise the line is counted and its Response is yielded, *)
(* or, with decode_response, strptime or json.loads raises ValueError,     *)
(* which leaves the with statement (closing the file) and the generator.   *)
(***************************************************************************)
ReadLine(c) ==
    /\ pc[c] = "read"
    /\ file[c].pos < Len(FileLines(c))
    /\ LET line == FileLines(c)[file[c].pos + 1]
           decode_response == request[c].decode_response
       IN  IF LoopBody[line, decode_response].skip
           THEN /\ file' = [file EXCEPT ![c].pos = @ + 1]
                /\ UNCHANGED <<pc, exc, messages_count, emitted, emit_src, raised_at>>
           ELSE IF LoopBody[line, decode_response].fails
           THEN /\ messages_count' = [messages_count EXCEPT ![c] = @ + 1]
                /\ file' = [file EXCEPT ![c] = NoFile]
                /\ pc' = [pc EXCEPT ![c] = "raised"]
                /\ exc' = [exc EXCEPT ![c] = "ValueError"]
                /\ raised_at' = [raised_at EXCEPT ![c] =
                                    [date |-> current_slice_date[c], line |-> file[c].pos + 1]]
                /\ UNCHANGED <<emitted, emit_src>>
           ELSE /\ messages_count' = [messages_count EXCEPT ![c] = @ + 1]
                /\ file' = [file EXCEPT ![c].pos = @ + 1]
                /\ emitted' = [emitted EXCEPT ![c] =
                                  Append(@, LoopBody[line, decode_response].response)]
                /\ emit_src' = [emit_src EXCEPT ![c] =
                                   Append(@, [date |-> current_slice_date[c],
                                              line |-> file[c].pos + 1])]
                /\ pc' = [pc EXCEPT ![c] = "yield"]
                /\ UNCHANGED <<exc, raised_at>>
    /\ UNCHANGED <<request, from_date, to_date, current_slice_date, current_slice_path,
                   fs, feed, checks, opens,
                   failed_rule>>

\* the consumer asks for the next Response: the generator resumes after the yield
Resume(c) ==
    /\ pc[c] = "yield"
    /\ pc' = [pc EXCEPT ![c] = "read"]
    /\ UNCHANGED <<request, exc, from_date, to_date, current_slice_date,
                   current_slice_path, file, messages_count, emitted, fs, feed, checks,
                   opens, emit_src,
                   raised_at,
                   failed_rule>>

\* the for loop left at any line (a break for the continue)
EndOfSlice_early(c) ==
    /\ pc[c] = "read"
    /\ file' = [file EXCEPT ![c] = NoFile]
    /\ current_slice_date' =
           [current_slice_date EXCEPT ![c] = AddSeconds(@, SLICE_SECONDS)]
    /\ pc' = [pc EXCEPT ![c] = "loop"]
    /\ UNCHANGED <<request, exc, from_date, to_date, current_slice_path, messages_count,
                   emitted, fs, feed, checks, opens, emit_src, raised_at,
                   failed_rule>>

(***************************************************************************)
(* Lines 65 and 78-79: the file has no more lines; the with statement      *)
(* closes it and the cursor advances by one slice.                         *)
(***************************************************************************)
EndOfSlice(c) ==
    /\ pc[c] = "read"
    /\ file[c].pos = Len(FileLines(c))
    /\ file' = [file EXCEPT ![c] = NoFile]
    /\ current_slice_date' =
           [current_slice_date EXCEPT ![c] = AddSeconds(@, SLICE_SECONDS)]
    /\ pc' = [pc EXCEPT ![c] = "loop"]
    /\ UNCHANGED <<request, exc, from_date, to_date, current_slice_path, messages_count,
                   emitted, fs, feed, checks, opens, emit_src,
                   raised_at,
                   failed_rule>>

(***************************************************************************)
(* The consumer stops iterating while the generator is suspended at a      *)
(* yield; the generator is closed later, when the event loop finalizes it: *)
(* GeneratorExit is raised at the yield and the with statement closes the  *)
(* file.                                                                   *)
(***************************************************************************)
Abandon(c) ==
    /\ pc[c] = "yield"
    /\ pc' = [pc EXCEPT ![c] = "abandoned"]
    /\ UNCHANGED <<request, exc, from_date, to_date, current_slice_date,
                   current_slice_path, file, messages_count, emitted, fs, feed, checks,
                   opens, emit_src,
                   raised_at,
                   failed_rule>>

\* the generator finalized without leaving the with statement: the file stays open
Finalize_without_close(c) ==
    /\ pc[c] = "abandoned"
    /\ pc' = [pc EXCEPT ![c] = "closed"]
    /\ UNCHANGED <<request, exc, from_date, to_date, current_slice_date,
                   current_slice_path, file, messages_count, emitted, fs, feed, checks,
                   opens, emit_src, raised_at, failed_rule>>

Finalize(c) ==
    /\ pc[c] = "abandoned"
    /\ pc' = [pc EXCEPT ![c] = "closed"]
    /\ file' = [file EXCEPT ![c] = NoFile]
    /\ UNCHANGED <<request, exc, from_date, to_date, current_slice_date,
                   current_slice_path, messages_count, emitted, fs, feed, checks, opens,
                   emit_src,
                   raised_at,
                   failed_rule>>

(***************************************************************************)
(* The producer, an external process: it writes, whole, the file of slice  *)
(* k of the horizon for the exchange and filters of a call.  It never      *)
(* rewrites or deletes a file.                                             *)
(***************************************************************************)
SlicePath(c, k) ==
    get_slice_cache_path(DEFAULT_CACHE_DIR, request[c].exchange,
                         AddSeconds(BaseDate, k * SLICE_SECONDS), request[c].filters)

\* the producer works for a call once its request has passed validation
Wanted(c) == pc[c] \notin {"idle", "start", "rejected"}

Download(c, k) ==
    /\ Wanted(c)
    /\ ~IsFile(SlicePath(c, k))
    /\ fs' = (SlicePath(c, k) :> feed[k]) @@ fs
    /\ UNCHANGED <<request, pc, exc, from_date, to_date, current_slice_date,
                   current_slice_path, file, messages_count, emitted, feed, checks,
                   opens, emit_src,
                   raised_at,
                   failed_rule>>

Next ==
    \/ \E c \in Calls : Validate(c)
    \/ \E c \in Calls : LoopTest(c)
    \/ \E c \in Calls : CheckSlice(c)
    \/ \E c \in Calls : Wake(c)
    \/ \E c \in Calls : OpenSlice(c)
    \/ \E c \in Calls : ReadLine(c)
    \/ \E c \in Calls : Resume(c)
    \/ \E c \in Calls : EndOfSlice(c)
    \/ \E c \in Calls : Abandon(c)
    \/ \E c \in Calls : Finalize(c)
    \/ \E c \in Calls, k \in 0..(MaxSlices - 1) : Download(c, k)

Spec == Init /\ [][Next]_vars

(***************************************************************************)
(* Two calls of replay running in one event loop on one cache, each with   *)
(* a consumer that iterates to the end.  Both ask for bitmex without       *)
(* filters, so their slices are the same files where their ranges meet:    *)
(* call 1 from the start of the horizon, call 2 for its second slice.  The *)
(* files hold lines that decode.                                           *)
(***************************************************************************)
WellFormed == <<FileContents[7], FileContents[1], FileContents[2]>>

RequestsOfTwo ==
    { [c \in Calls |->
         IF c = 1
         THEN [exchange |-> "bitmex", from_date |-> IsoDate(0, 0), to_date |-> IsoDate(m, 0),
               filters |-> Py("NoneType", <<>>), decode_response |-> d]
         ELSE [exchange |-> "bitmex", from_date |-> IsoDate(1, 0), to_date |-> IsoDate(2, 0),
               filters |-> Py("NoneType", <<>>), decode_response |-> FALSE]] :
        m \in {MaxSlices}, d \in {TRUE} }

InitTwo ==
    /\ request \in RequestsOfTwo
    /\ pc = [c \in Calls |-> "start"]
    /\ exc = [c \in Calls |-> "none"]
    /\ from_date = [c \in Calls |-> NoDatetime]
    /\ to_date = [c \in Calls |-> NoDatetime]
    /\ current_slice_date = [c \in Calls |-> NoDatetime]
    /\ current_slice_path = [c \in Calls |-> NoPath]
    /\ file = [c \in Calls |-> NoFile]
    /\ messages_count = [c \in Calls |-> 0]
    /\ emitted = [c \in Calls |-> <<>>]
    /\ fs = << >>
    /\ feed = [k \in 0..(MaxSlices - 1) |-> WellFormed[(k % Len(WellFormed)) + 1]]
    /\ checks = [c \in Calls |-> {}]
    /\ opens = [c \in Calls |-> <<>>]
    /\ emit_src = [c \in Calls |-> <<>>]
    /\ raised_at = [c \in Calls |-> NoLine]
    /\ failed_rule = [c \in Calls |-> 0]

\* the same with a wait loop that keeps the event loop to itself: no call
\* takes a step while another one is in its wait loop
ReplayStep_blocking_wait(c) ==
    /\ \A o \in Calls \ {c} : pc[o] \notin {"check", "sleep"}
    /\ \/ Validate(c) \/ LoopTest(c) \/ CheckSlice(c) \/ Wake(c) \/ OpenSlice(c)
       \/ ReadLine(c) \/ Resume(c) \/ EndOfSlice(c)

\* a step of the generator of call c, its consumer asking for every Response
ReplayStep(c) ==
    \/ Validate(c) \/ LoopTest(c) \/ CheckSlice(c) \/ Wake(c) \/ OpenSlice(c)
    \/ ReadLine(c) \/ Resume(c) \/ EndOfSlice(c)

NextOfTwo ==
    \/ \E c \in Calls : ReplayStep(c)
    \/ \E c \in Calls, k \in 0..(MaxSlices - 1) : Download(c, k)

(***************************************************************************)
(* The event loop runs every generator that can take a step: a sleep ends, *)
(* a ready coroutine is resumed.  Nothing makes the producer write a file. *)
(***************************************************************************)
FairSpec == InitTwo /\ [][NextOfTwo]_vars /\ \A c \in Calls : WF_vars(ReplayStep(c))

(***************************************************************************)
(* What the claims speak of.                                               *)
(***************************************************************************)
\* the offsets (minute, second) from BaseDate of the naive date strings of the model
DateOffsets == (0..MaxSlices) \X {0, 30, 31}

\* value is one of the parseable naive date strings of the model
IsOrdinaryDate(value) == \E ms \in DateOffsets : value = IsoDate(ms[1], ms[2])

\* its offset from BaseDate in seconds, read off the way the string was written
OffsetOf(value) ==
    LET ms == CHOOSE x \in DateOffsets : value = IsoDate(x[1], x[2])
    IN  ms[1] * SLICE_SECONDS + ms[2]

\* the requests whose filters break no rule: None, or a list of filters with a
\* channel of bitmex and no symbols or a list of strings
GoodFilters ==
    { Py("NoneType", <<>>),
      Py("list", <<>>),
      Py("list", <<Channel("trade", Py("list", <<Symbol("XBTUSD")>>))>>) }

\* call c has been started and its validation has run
Started(c) == pc[c] \notin {"idle", "start"}

\* call c passed validation and entered the slice loop
Replaying(c) == pc[c] \notin {"idle", "start", "rejected"}

\* the slices of the request of call c: the k with from_date + k * 60s < to_date
SliceIndexes(c) ==
    {k \in 0..MaxSlices :
        OffsetOf(request[c].from_date) + k * SLICE_SECONDS < OffsetOf(request[c].to_date)}

\* the start of slice k of call c, in seconds
SliceStart(c, k) == BaseDate.secs + OffsetOf(request[c].from_date) + k * SLICE_SECONDS

\* the indexes in emitted[c] of the Responses of the slice that starts at date
EmittedOf(c, date) == {i \in 1..Len(emit_src[c]) : emit_src[c][i].date = date}

(***************************************************************************)
(* C1.  A request whose exchange is not a known exchange fails with the    *)
(* error kind of every other validation failure (ValueError), before any   *)
(* existence check and any file open.                                      *)
(***************************************************************************)
C1_UnknownExchangeIsInvalidArgument ==
    \A c \in Calls :
        (Started(c) /\ request[c].exchange \notin EXCHANGES)
            => /\ pc[c] = "rejected"
               /\ exc[c] = "ValueError"
               /\ checks[c] = {}
               /\ opens[c] = <<>>

(***************************************************************************)
(* C2.  With a known exchange and parseable dates, validation raises       *)
(* ValueError when from_date = to_date or from_date > to_date, and passes  *)
(* when from_date < to_date (the filters being valid); when the two differ *)
(* by one second the replay checks for and opens one slice only, the one   *)
(* at from_date.                                                           *)
(***************************************************************************)
C2_DateOrder ==
    \A c \in Calls :
        LET r == request[c] IN
        (/\ Started(c) /\ r.exchange \in EXCHANGES
         /\ IsOrdinaryDate(r.from_date) /\ IsOrdinaryDate(r.to_date))
            => /\ OffsetOf(r.from_date) >= OffsetOf(r.to_date)
                    => pc[c] = "rejected" /\ exc[c] = "ValueError"
               /\ (OffsetOf(r.from_date) < OffsetOf(r.to_date) /\ r.filters \in GoodFilters)
                    => pc[c] /= "rejected"
               /\ (OffsetOf(r.to_date) - OffsetOf(r.from_date) = 1 /\ r.filters \in GoodFilters)
                    => /\ \A ch \in checks[c] : ch.date.secs = SliceStart(c, 0)
                       /\ Len(opens[c]) <= 1
                       /\ pc[c] = "done" => Len(opens[c]) = 1

\* a replay over a range of one second has run to its end, having opened one slice
C2_Witness ==
    \E c \in Calls :
        /\ pc[c] = "done"
        /\ IsOrdinaryDate(request[c].from_date) /\ IsOrdinaryDate(request[c].to_date)
        /\ OffsetOf(request[c].to_date) - OffsetOf(request[c].from_date) = 1
        /\ Len(opens[c]) = 1

(***************************************************************************)
(* C3.  For a valid request the slices checked for and opened are those    *)
(* that start at from_date + k * 60s before to_date: they are opened once  *)
(* each in increasing k, all of them when the replay ends, no slice at or  *)
(* after to_date is checked for or opened, and the cursor changes by +60   *)
(* seconds only.                                                           *)
(***************************************************************************)
C3_SlicesInv ==
    \A c \in Calls :
        Replaying(c) =>
            /\ Len(opens[c]) <= Cardinality(SliceIndexes(c))
            /\ \A i \in 1..Len(opens[c]) :
                  /\ opens[c][i].date.secs = SliceStart(c, i - 1)
                  /\ opens[c][i].path =
                        get_slice_cache_path(DEFAULT_CACHE_DIR, request[c].exchange,
                                             opens[c][i].date, request[c].filters)
            /\ \A ch \in checks[c] :
                  /\ \E k \in SliceIndexes(c) : ch.date.secs = SliceStart(c, k)
                  /\ ch.date.secs <= current_slice_date[c].secs
                  /\ ch.path = get_slice_cache_path(DEFAULT_CACHE_DIR, request[c].exchange,
                                                    ch.date, request[c].filters)
            /\ pc[c] = "done" => Len(opens[c]) = Cardinality(SliceIndexes(c))

C3_CursorStep ==
    \A c \in Calls :
        (Replaying(c) /\ current_slice_date'[c] /= current_slice_date[c])
            => current_slice_date'[c].secs = current_slice_date[c].secs + SLICE_SECONDS

C3_SlicesInOrder == []C3_SlicesInv /\ [][C3_CursorStep]_vars

\* a replay over several slices has opened them all and ended
C3_Witness ==
    \E c \in Calls :
        /\ pc[c] = "done"
        /\ Len(opens[c]) = MaxSlices
        /\ Cardinality({ch.date : ch \in checks[c]}) = MaxSlices


(***************************************************************************)
(* Slices, lines and records, for the claims about what is emitted.        *)
(***************************************************************************)
\* the datetime of second secs
DateAt(secs) == [secs |-> secs, us |-> 0, aware |-> FALSE]

\* the content of the file of the slice of call c that starts at date
SliceFile(c, date) ==
    fs[get_slice_cache_path(DEFAULT_CACHE_DIR, request[c].exchange, date, request[c].filters)]

\* the line a history entry (date, line) names
LineAt(c, src) == SplitLines(SliceFile(c, src.date))[src.line]

\* the records of a slice file: its lines, the empty ones left out
RecordsOf(bytes) == SelectSeq(SplitLines(bytes), LAMBDA l : l /= EMPTY_LINE)

\* the Responses of the records of the slices k, k + 1, ... of call c
RECURSIVE ExpectedFrom(_, _)
ExpectedFrom(c, k) ==
    IF k \notin SliceIndexes(c) THEN <<>>
    ELSE LET records == RecordsOf(SliceFile(c, DateAt(SliceStart(c, k))))
         IN  [i \in 1..Len(records) |-> DecodeLine(records[i], request[c].decode_response)]
                 \o ExpectedFrom(c, k + 1)

\* every line of the slice at date that is not an empty line has its Response
\* among the first n emitted
AllEmitted(c, date, n) ==
    \A j \in 1..Len(SplitLines(SliceFile(c, date))) :
        SplitLines(SliceFile(c, date))[j] /= EMPTY_LINE
            => \E i \in 1..n : emit_src[c][i] = [date |-> date, line |-> j]

\* the with statement of the i-th gzip.open has been left, the consumer not
\* having abandoned the replay
SliceLeft(c, i) == i < Len(opens[c]) \/ (~file[c].open /\ pc[c] /= "closed")

(***************************************************************************)
(* C4.  When the replay has ended, the Responses emitted are the records   *)
(* of the slices of [from_date, to_date) in slice order, each slice's in   *)
(* file order; a slice without records contributes nothing.                *)
(***************************************************************************)
C4_OutputIsConcatenation ==
    \A c \in Calls : pc[c] = "done" => emitted[c] = ExpectedFrom(c, 0)

\* C4 where it holds: the same, for the replays none of whose slices has an empty line
C4_ExceptEmptyLines ==
    \A c \in Calls :
        (/\ pc[c] = "done"
         /\ \A i \in 1..Len(opens[c]) :
               \A j \in 1..Len(SplitLines(fs[opens[c][i].path])) :
                   SplitLines(fs[opens[c][i].path])[j] /= EMPTY_LINE)
            => emitted[c] = ExpectedFrom(c, 0)

(***************************************************************************)
(* C5.  Responses are emitted in slice order and, within a slice, in file  *)
(* order (each is the Response of its line); when the existence of a slice *)
(* is checked, the Responses emitted so far are those of the earlier       *)
(* slices, and every record of the earlier slices is among them.           *)
(***************************************************************************)
C5_SliceOrder ==
    \A c \in Calls :
        /\ \A i \in 1..Len(emit_src[c]) :
              emitted[c][i] = DecodeLine(LineAt(c, emit_src[c][i]), request[c].decode_response)
        /\ \A i, j \in 1..Len(emit_src[c]) :
              i < j => \/ emit_src[c][i].date.secs < emit_src[c][j].date.secs
                       \/ /\ emit_src[c][i].date = emit_src[c][j].date
                          /\ emit_src[c][i].line < emit_src[c][j].line
        /\ \A ch \in checks[c] :
              /\ \A i \in 1..Len(emit_src[c]) :
                    (emit_src[c][i].date.secs < ch.date.secs) <=> (i <= ch.emitted)
              /\ \A k \in SliceIndexes(c) :
                    SliceStart(c, k) < ch.date.secs
                        => AllEmitted(c, DateAt(SliceStart(c, k)), ch.emitted)

\* the second slice is being checked for after Responses of the first were emitted
C5_Witness ==
    \E c \in Calls : \E ch \in checks[c] :
        /\ ch.emitted >= 2
        /\ Len(emitted[c]) > ch.emitted

(***************************************************************************)
(* C6.  While the file of the slice at the cursor is missing the replay    *)
(* stays in the wait loop: the cursor does not move, nothing is emitted,   *)
(* nothing is opened.  A slice is opened only after os.path.isfile found   *)
(* its file, and the cursor moves past a slice only when the slice was     *)
(* opened and the Response of each of its records was emitted: a missing   *)
(* slice is neither skipped nor taken for an empty one.                    *)
(***************************************************************************)
C6_WaitStep ==
    \A c \in Calls :
        (pc[c] \in {"check", "sleep"} /\ ~IsFile(PathToCheck(c)))
            => /\ pc'[c] \in {"check", "sleep"}
               /\ current_slice_date'[c] = current_slice_date[c]
               /\ emitted'[c] = emitted[c]
               /\ opens'[c] = opens[c]
               /\ file'[c] = file[c]

C6_WaitInv ==
    \A c \in Calls :
        Replaying(c) =>
            /\ \A i \in 1..Len(opens[c]) :
                  /\ IsFile(opens[c][i].path)
                  /\ \E ch \in checks[c] :
                        ch.found /\ ch.path = opens[c][i].path /\ ch.date = opens[c][i].date
            /\ \A k \in SliceIndexes(c) :
                  SliceStart(c, k) < current_slice_date[c].secs
                      => /\ k + 1 <= Len(opens[c])
                         /\ AllEmitted(c, DateAt(SliceStart(c, k)), Len(emitted[c]))

C6_WaitsForSlice == []C6_WaitInv /\ [][C6_WaitStep]_vars

\* a slice that os.path.isfile did not find at first has had Responses emitted
C6_Witness ==
    \E c \in Calls : \E ch \in checks[c] :
        /\ ~ch.found
        /\ EmittedOf(c, ch.date) /= {}

(***************************************************************************)
(* C7.  Empty lines produce no Response and no error: no Response comes    *)
(* from an empty line, no exception is raised on one, and a slice that is  *)
(* an empty line followed by one valid record yields that one record.      *)
(***************************************************************************)
C7_EmptyLinesSkipped ==
    \A c \in Calls :
        /\ \A i \in 1..Len(emit_src[c]) : LineAt(c, emit_src[c][i]) /= EMPTY_LINE
        /\ pc[c] = "raised" => LineAt(c, raised_at[c]) /= EMPTY_LINE
        /\ \A i \in 1..Len(opens[c]) :
              (fs[opens[c][i].path] = EMPTY_LINE \o LineBytes(REC_A) /\ SliceLeft(c, i))
                  => /\ raised_at[c].date /= opens[c][i].date
                     /\ Cardinality(EmittedOf(c, opens[c][i].date)) = 1

(***************************************************************************)
(* C8.  As claimed: with decode_response, the slice whose only line is the *)
(* 26-character timestamp 2021-01-01T00:00:00.123456, a space, {"a":1} and *)
(* a newline yields one Response, of that datetime and the object {"a":1}. *)
(***************************************************************************)
\* the datetime 2021-01-01T00:00:00.123456
ExampleTimestamp == [secs |-> BaseDate.secs, us |-> 123456, aware |-> FALSE]

\* the object {"a": 1}
ExampleMessage == [type |-> "dict", size |-> 1, key |-> <<"a">>, n |-> 1]

ExampleResponse ==
    Response(Parsed(ExampleTimestamp, NoJsonValue), Parsed(NoDatetime, ExampleMessage))

\* the slice of the i-th gzip.open yielded the one Response of the example
YieldsExample(c, i) ==
    /\ raised_at[c].date /= opens[c][i].date
    /\ Cardinality(EmittedOf(c, opens[c][i].date)) = 1
    /\ \A j \in EmittedOf(c, opens[c][i].date) : emitted[c][j] = ExampleResponse

C8_Decode26 ==
    \A c \in Calls : \A i \in 1..Len(opens[c]) :
        (/\ request[c].decode_response
         /\ fs[opens[c][i].path] = LineBytes(REC_26)
         /\ SliceLeft(c, i))
            => YieldsExample(c, i)

(***************************************************************************)
(* C8, amended.  With decode_response, the slice whose only line is the    *)
(* 28-character timestamp 2021-01-01T00:00:00.1234567Z, a space, {"a":1}   *)
(* and a newline yields one Response, of the datetime                      *)
(* 2021-01-01T00:00:00.123456 and the object {"a":1}.  For every record    *)
(* line with a 28-character timestamp prefix the timestamp parsed is the   *)
(* first 26 characters of the prefix and the payload parsed is the text    *)
(* after the delimiter.                                                    *)
(***************************************************************************)
C8_Decode28 ==
    \A c \in Calls :
        request[c].decode_response =>
            /\ \A i \in 1..Len(opens[c]) :
                  (fs[opens[c][i].path] = LineBytes(REC_A) /\ SliceLeft(c, i))
                      => YieldsExample(c, i)
            /\ \A i \in 1..Len(emit_src[c]) : \A r \in RecordLines :
                  (LineAt(c, emit_src[c][i]) = LineBytes(r)
                       /\ Len(r.timestamp) = DATE_MESSAGE_SPLIT_INDEX)
                      => emitted[c][i] =
                            Response(Parsed(Strptime(SubSeq(r.timestamp, 1, Len(r.timestamp) - 2)).dt,
                                            NoJsonValue),
                                     Parsed(NoDatetime, JsonLoads(r.payload).value))

\* the slice of the one 28-character line was decoded and left
C8_Witness ==
    \E c \in Calls : \E i \in 1..Len(opens[c]) :
        /\ request[c].decode_response
        /\ fs[opens[c][i].path] = LineBytes(REC_A)
        /\ SliceLeft(c, i)
        /\ YieldsExample(c, i)

(***************************************************************************)
(* C9.  As claimed: without decode_response, for every record line         *)
(* (timestamp prefix, delimiter, payload) the Response holds raw bytes     *)
(* with local_timestamp + delimiter + message = the line.                  *)
(***************************************************************************)
\* the i-th Response of call c is raw and rebuilds the record line r around its delimiter
Rebuilds(c, i, r) ==
    /\ emitted[c][i].local_timestamp.type = "bytes"
    /\ emitted[c][i].message.type = "bytes"
    /\ emitted[c][i].local_timestamp.bytes \o r.delimiter \o emitted[c][i].message.bytes
           = LineBytes(r)

C9_RawRoundTrip ==
    \A c \in Calls :
        ~request[c].decode_response =>
            \A i \in 1..Len(emit_src[c]) : \A r \in RecordLines :
                LineAt(c, emit_src[c][i]) = LineBytes(r) => Rebuilds(c, i, r)

(***************************************************************************)
(* C9, amended.  Without decode_response, for every record line whose      *)
(* timestamp prefix is 28 bytes long (DATE_MESSAGE_SPLIT_INDEX) the        *)
(* Response holds raw bytes with local_timestamp + delimiter + message =   *)
(* the line.                                                               *)
(***************************************************************************)
C9_RawRoundTrip28 ==
    \A c \in Calls :
        ~request[c].decode_response =>
            \A i \in 1..Len(emit_src[c]) : \A r \in RecordLines :
                (LineAt(c, emit_src[c][i]) = LineBytes(r)
                     /\ Len(r.timestamp) = DATE_MESSAGE_SPLIT_INDEX)
                    => Rebuilds(c, i, r)

\* a raw Response of a record line with a 28-byte prefix has been emitted
C9_Witness ==
    \E c \in Calls : \E i \in 1..Len(emit_src[c]) :
        /\ ~request[c].decode_response
        /\ LineAt(c, emit_src[c][i]) = LineBytes(REC_B)
        /\ Rebuilds(c, i, REC_B)

(***************************************************************************)
(* C10.  With decode_response, a line that cannot be parsed is not passed  *)
(* over: the ValueError is raised at that line, after the Responses of the *)
(* lines before it and of no other line, with the file closed and the      *)
(* cursor still at that slice; from then on the replay does nothing more:  *)
(* no Response, no move of the cursor, no check, no open.                  *)
(***************************************************************************)
\* the lines of the model on which strptime or json.loads raises
Malformed == {EMPTY_LINE, LineBytes(REC_26), LineBytes(REC_BAD_JSON), LineBytes(REC_BAD_TS)}

C10_FailureInv ==
    \A c \in Calls :
        /\ (request[c].decode_response /\ file[c].open)
              => \A j \in 1..file[c].pos : FileLines(c)[j] \notin Malformed
        /\ pc[c] = "raised"
              => /\ exc[c] = "ValueError"
                 /\ request[c].decode_response
                 /\ ~file[c].open
                 /\ raised_at[c].date = current_slice_date[c]
                 /\ opens[c][Len(opens[c])].date = current_slice_date[c]
                 /\ LineAt(c, raised_at[c]) \in Malformed
                 /\ {emit_src[c][i].line : i \in EmittedOf(c, current_slice_date[c])}
                        = 1..(raised_at[c].line - 1)
                 /\ \A i \in 1..Len(emit_src[c]) :
                        emit_src[c][i].date.secs <= current_slice_date[c].secs
                 /\ \A ch \in checks[c] : ch.date.secs <= current_slice_date[c].secs

C10_FailureStep ==
    \A c \in Calls :
        pc[c] = "raised"
            => /\ pc'[c] = "raised"
               /\ exc'[c] = exc[c]
               /\ emitted'[c] = emitted[c]
               /\ current_slice_date'[c] = current_slice_date[c]
               /\ checks'[c] = checks[c]
               /\ opens'[c] = opens[c]
               /\ file'[c] = file[c]

C10_DecodeFailureIsFatal == []C10_FailureInv /\ [][C10_FailureStep]_vars

\* a replay failed on a line after emitting the line before it, the file of
\* the next slice being in the cache
C10_Witness ==
    \E c \in Calls :
        /\ pc[c] = "raised"
        /\ raised_at[c].line >= 2
        /\ Len(emitted[c]) >= 1
        /\ IsFile(get_slice_cache_path(DEFAULT_CACHE_DIR, request[c].exchange,
                                       AddSeconds(current_slice_date[c], SLICE_SECONDS),
                                       request[c].filters))
        /\ DatetimeLess(AddSeconds(current_slice_date[c], SLICE_SECONDS), to_date[c])

(***************************************************************************)
(* C11.  A request that breaks a rule of validation emits no Response and  *)
(* makes no os.path.isfile call and no gzip.open: the generator ends at    *)
(* its first step with the exception, before the slice loop, and stays     *)
(* ended.  No step changes the request of a call.                          *)
(***************************************************************************)
\* the request breaks a rule, read off the way the request was written
BreaksARule(r) ==
    \/ r.exchange \notin EXCHANGES
    \/ ~IsOrdinaryDate(r.from_date)
    \/ ~IsOrdinaryDate(r.to_date)
    \/ (IsOrdinaryDate(r.from_date) /\ IsOrdinaryDate(r.to_date)
            /\ OffsetOf(r.from_date) >= OffsetOf(r.to_date))
    \/ r.filters \notin GoodFilters

\* call c has done nothing but validate
NothingDone(c) ==
    /\ emitted[c] = <<>>
    /\ checks[c] = {}
    /\ opens[c] = <<>>
    /\ file[c] = NoFile
    /\ current_slice_date[c] = NoDatetime
    /\ current_slice_path[c] = NoPath

C11_RejectedInv ==
    \A c \in Calls :
        /\ (Started(c) /\ BreaksARule(request[c]))
              => pc[c] = "rejected" /\ exc[c] /= "none" /\ NothingDone(c)
        /\ pc[c] = "start" => NothingDone(c)
        /\ (checks[c] /= {} \/ opens[c] /= <<>> \/ emitted[c] /= <<>>)
              => ~BreaksARule(request[c])

C11_RejectedStep ==
    \A c \in Calls :
        /\ request'[c] = request[c]
        /\ pc[c] = "rejected"
              => pc'[c] = "rejected" /\ exc'[c] = exc[c] /\ NothingDone(c)'

C11_InvalidRequestDoesNothing == []C11_RejectedInv /\ [][C11_RejectedStep]_vars

\* a request with a known exchange and ordered dates was rejected for its filters
C11_Witness ==
    \E c \in Calls :
        /\ pc[c] = "rejected"
        /\ request[c].exchange \in EXCHANGES
        /\ IsOrdinaryDate(request[c].from_date) /\ IsOrdinaryDate(request[c].to_date)
        /\ OffsetOf(request[c].from_date) < OffsetOf(request[c].to_date)
        /\ request[c].filters \notin GoodFilters
        /\ NothingDone(c)

(***************************************************************************)
(* C12.  The rules are applied in the order exchange, from_date, to_date,  *)
(* date order, filters type and then, filter by filter, name and symbols;  *)
(* a request that breaks rules fails at the first of them it breaks, with  *)
(* the ValueError of that rule.                                            *)
(***************************************************************************)
\* value is one of the date strings of the model that fromisoformat parses
IsParseableDate(value) == IsOrdinaryDate(value) \/ value = IsoDateUtc(0, 0)

\* the i-th filter has a name that is not a channel of the exchange
BadName(r, i) ==
    \/ r.exchange = "bitmex" /\ r.filters.items[i].name \notin {"trade", "orderBookL2"}
    \/ r.exchange = "coinbase" /\ r.filters.items[i].name /= "match"

\* the i-th filter has symbols that are not a list of strings
BadSymbolsOf(r, i) ==
    LET symbols == r.filters.items[i].symbols
    IN  /\ symbols.type /= "NoneType"
        /\ \/ symbols.type /= "list"
           \/ \E j \in 1..Len(symbols.items) : symbols.items[j].type /= "str"

\* the rules request r breaks; the rules on dates are about values that are
\* there to compare, the rules on filters about an exchange that has channels
RulesBroken(r) ==
    {1 : x \in {y \in {1} : r.exchange \notin EXCHANGES}}
    \cup {2 : x \in {y \in {1} : ~IsParseableDate(r.from_date)}}
    \cup {3 : x \in {y \in {1} : ~IsParseableDate(r.to_date)}}
    \cup {4 : x \in {y \in {1} :
                /\ IsParseableDate(r.from_date) /\ IsParseableDate(r.to_date)
                /\ ~(/\ IsOrdinaryDate(r.from_date) /\ IsOrdinaryDate(r.to_date)
                     /\ OffsetOf(r.from_date) < OffsetOf(r.to_date))}}
    \cup {5 : x \in {y \in {1} : r.filters.type \notin {"NoneType", "list"}}}
    \cup {IF BadName(r, i) THEN 6 ELSE 7 :
            i \in {j \in 1..Len(r.filters.items) :
                     /\ r.exchange \in EXCHANGES
                     /\ r.filters.type = "list"
                     /\ (BadName(r, j) \/ BadSymbolsOf(r, j))
                     /\ \A k \in 1..(j - 1) : ~BadName(r, k) /\ ~BadSymbolsOf(r, k)}}

\* the first rule request r breaks, 0 when it breaks none
FirstBroken(r) ==
    IF RulesBroken(r) = {} THEN 0
    ELSE CHOOSE n \in RulesBroken(r) : \A m \in RulesBroken(r) : n <= m

C12_FirstViolatedRuleDecides ==
    \A c \in Calls :
        (Started(c) /\ Cardinality(RulesBroken(request[c])) >= 2)
            => /\ pc[c] = "rejected"
               /\ failed_rule[c] = FirstBroken(request[c])
               /\ exc[c] = "ValueError"

\* C12 where it holds: the rule that fails is the first one broken, whatever
\* the exception it fails with
C12_RuleOrder ==
    \A c \in Calls :
        Started(c) =>
            /\ failed_rule[c] = FirstBroken(request[c])
            /\ (pc[c] = "rejected") <=> (FirstBroken(request[c]) /= 0)

(***************************************************************************)
(* C13.  With a known exchange, a from_date that is None, not a str or a   *)
(* str that is not an ISO date makes validation raise ValueError, and so   *)
(* does such a to_date when from_date is a date; no other exception is     *)
(* raised for a bad date.                                                  *)
(***************************************************************************)
\* the request of call c has a known exchange and breaks a rule on a date first
BadDateFirst(c) ==
    /\ request[c].exchange \in EXCHANGES
    /\ \/ ~IsParseableDate(request[c].from_date)
       \/ ~IsParseableDate(request[c].to_date)

C13_BadDateIsInvalidArgument ==
    \A c \in Calls :
        (Started(c) /\ BadDateFirst(c))
            => /\ pc[c] = "rejected"
               /\ exc[c] = "ValueError"
               /\ failed_rule[c] = (IF ~IsParseableDate(request[c].from_date) THEN 2 ELSE 3)

\* C13 where it holds: the same for the dates that are None or a str
C13_ExceptNonStrings ==
    \A c \in Calls :
        (/\ Started(c) /\ BadDateFirst(c)
         /\ request[c].from_date.type \in {"NoneType", "str"}
         /\ (IsParseableDate(request[c].from_date)
                => request[c].to_date.type \in {"NoneType", "str"}))
            => /\ pc[c] = "rejected"
               /\ exc[c] = "ValueError"
               /\ failed_rule[c] = (IF ~IsParseableDate(request[c].from_date) THEN 2 ELSE 3)

(***************************************************************************)
(* C14.  As claimed, a sequence being a list or a tuple: with a known      *)
(* exchange and ordered dates, filters = None passes; filters that is not  *)
(* None and not a sequence raises ValueError; a filter with a name that is *)
(* not a channel of the exchange raises ValueError; a filter with symbols  *)
(* that are not a sequence of strings raises ValueError; a sequence of     *)
(* filters with names of the exchange and no symbols or a sequence of      *)
(* strings passes.                                                         *)
(***************************************************************************)
\* the request of call c has a known exchange and ordered dates
DatesInOrder(c) ==
    /\ request[c].exchange \in EXCHANGES
    /\ IsOrdinaryDate(request[c].from_date) /\ IsOrdinaryDate(request[c].to_date)
    /\ OffsetOf(request[c].from_date) < OffsetOf(request[c].to_date)

\* validation raised ValueError at rule n
FailedAt(c, n) == pc[c] = "rejected" /\ exc[c] = "ValueError" /\ failed_rule[c] = n

\* the i-th filter has symbols that are there and are not a value of one of
\* the types holding strings only
SymbolsNotOf(r, i, types) ==
    LET symbols == r.filters.items[i].symbols
    IN  /\ symbols.type /= "NoneType"
        /\ \/ symbols.type \notin types
           \/ \E j \in 1..Len(symbols.items) : symbols.items[j].type /= "str"

\* the filters rules, the sequences being the values of the given types
FiltersRules(c, types) ==
    LET r == request[c]
        bad(i) == BadName(r, i) \/ SymbolsNotOf(r, i, types)
    IN  /\ r.filters.type = "NoneType" => pc[c] /= "rejected"
        /\ r.filters.type \notin ({"NoneType"} \cup types) => FailedAt(c, 5)
        /\ r.filters.type \in types =>
              /\ \A i \in 1..Len(r.filters.items) :
                    ((\A k \in 1..(i - 1) : ~bad(k)) /\ BadName(r, i)) => FailedAt(c, 6)
              /\ \A i \in 1..Len(r.filters.items) :
                    ((\A k \in 1..(i - 1) : ~bad(k)) /\ ~BadName(r, i)
                         /\ SymbolsNotOf(r, i, types)) => FailedAt(c, 7)
              /\ (\A i \in 1..Len(r.filters.items) : ~bad(i)) => pc[c] /= "rejected"

C14_FiltersAnySequence ==
    \A c \in Calls :
        (Started(c) /\ DatesInOrder(c)) => FiltersRules(c, {"list", "tuple"})

(***************************************************************************)
(* C14, amended.  The same with a list where the claim says a sequence:    *)
(* filters that is not None and not a list raises ValueError (a tuple of   *)
(* filters does), and symbols that are there and are not a list of strings *)
(* raise ValueError (a tuple of strings does).                             *)
(***************************************************************************)
C14_FiltersList ==
    \A c \in Calls :
        (Started(c) /\ DatesInOrder(c)) => FiltersRules(c, {"list"})

\* a request with a list of one filter with a list of symbols passed
\* validation and was replayed to its end
C14_Witness ==
    \E c \in Calls :
        /\ DatesInOrder(c)
        /\ request[c].filters = Py("list", <<Channel("trade", Py("list", <<Symbol("XBTUSD")>>))>>)
        /\ pc[c] = "done"
        /\ failed_rule[c] = 0

(***************************************************************************)
(* C15.  As long as the file of the slice at the cursor is not there the   *)
(* replay stays in the wait loop, for ever if the file never appears: it   *)
(* keeps checking and sleeping, raises nothing, does not move the cursor,  *)
(* emits nothing and opens nothing; it leaves the wait loop only by an     *)
(* os.path.isfile call that finds the file, to open that file.             *)
(***************************************************************************)
\* call c is in the wait loop
InWaitLoop(c) == pc[c] \in {"check", "sleep"}

\* call c is in the wait loop and the file of its slice is not in the cache
Missing(c) == InWaitLoop(c) /\ ~IsFile(PathToCheck(c))

C15_StallStep ==
    \A c \in Calls :
        /\ Missing(c)
              => /\ InWaitLoop(c)'
                 /\ exc'[c] = "none"
                 /\ current_slice_date'[c] = current_slice_date[c]
                 /\ emitted'[c] = emitted[c]
                 /\ opens'[c] = opens[c]
                 /\ ~file'[c].open
        /\ (InWaitLoop(c) /\ ~InWaitLoop(c)')
              => /\ pc[c] = "check" /\ IsFile(PathToCheck(c))
                 /\ pc'[c] = "open"
                 /\ current_slice_path'[c] = PathToCheck(c)
                 /\ current_slice_date'[c] = current_slice_date[c]

C15_StallsForever ==
    /\ [][C15_StallStep]_vars
    /\ \A c \in Calls : []<>(Missing(c) => pc[c] = "check")
    /\ \A c \in Calls : []<>(Missing(c) => pc[c] = "sleep")

\* a replay that emitted the Responses of a slice sleeps in the wait loop of
\* the next slice, whose file is not there
C15_Witness ==
    \E c \in Calls :
        /\ pc[c] = "sleep"
        /\ Missing(c)
        /\ Len(emitted[c]) >= 1
        /\ \E ch \in checks[c] : ch.date = current_slice_date[c] /\ ~ch.found

(***************************************************************************)
(* C16.  Two calls of replay running in one event loop are independent: a  *)
(* step changes the locals of one call at most (its cursor, its file, its  *)
(* output) and a step of the producer those of none; under every           *)
(* interleaving what a call has emitted is a prefix of, and at its end is, *)
(* the sequence its request and the cache alone determine: the Responses   *)
(* of the lines of its slices, in order.                                   *)
(***************************************************************************)
\* the locals of the generator of call c
Locals(c) ==
    <<pc[c], exc[c], from_date[c], to_date[c], current_slice_date[c], current_slice_path[c],
      file[c], messages_count[c], emitted[c]>>

\* the Responses of the lines of the slices k, k + 1, ... of call c, the
\* file of slice j of the horizon holding feed[j]
RECURSIVE AloneFrom(_, _)
AloneFrom(c, k) ==
    IF k \notin SliceIndexes(c) THEN <<>>
    ELSE LET lines == SplitLines(feed[(SliceStart(c, k) - BaseDate.secs) \div SLICE_SECONDS])
         IN  [i \in 1..Len(lines) |-> DecodeLine(lines[i], request[c].decode_response)]
                 \o AloneFrom(c, k + 1)

IsPrefix(s, u) == Len(s) <= Len(u) /\ s = SubSeq(u, 1, Len(s))

C16_OutputInv ==
    \A c \in Calls :
        /\ IsPrefix(emitted[c], AloneFrom(c, 0))
        /\ pc[c] = "done" => emitted[c] = AloneFrom(c, 0)
        /\ pc[c] \in {"start", "loop", "check", "sleep", "open", "read", "yield", "done"}

C16_OneCallAtATime ==
    /\ \A c, o \in Calls :
          (c /= o /\ Locals(c)' /= Locals(c)) => (Locals(o)' = Locals(o) /\ fs' = fs)
    /\ fs' /= fs => \A c \in Calls : Locals(c)' = Locals(c)

C16_CallsAreIndependent == []C16_OutputInv /\ [][C16_OneCallAtATime]_vars

\* the two calls are reading the same slice file at the same time, at
\* different lines, each having emitted Responses
C16_Witness ==
    /\ file[1].open /\ file[2].open
    /\ file[1].path = file[2].path
    /\ file[1].pos /= file[2].pos
    /\ Len(emitted[1]) >= 2
    /\ Len(emitted[2]) >= 1

(***************************************************************************)
(* C17.  A call in its wait loop gives the event loop back at each sleep:  *)
(* when every slice file of a call is in the cache and the other call is   *)
(* waiting for a file that is missing, the first call goes on to emit the  *)
(* Response of every line of its slices and to end, even if the other one  *)
(* waits for ever.                                                         *)
(***************************************************************************)
\* every slice file of call c is in the cache
AllPresent(c) ==
    /\ Replaying(c)
    /\ \A k \in SliceIndexes(c) :
          IsFile(get_slice_cache_path(DEFAULT_CACHE_DIR, request[c].exchange,
                                      DateAt(SliceStart(c, k)), request[c].filters))

\* call c has ended having emitted the Response of every line of its slices
Complete(c) == pc[c] = "done" /\ emitted[c] = AloneFrom(c, 0)

C17_WaitingDoesNotBlock ==
    \A c, o \in Calls :
        c /= o => ((AllPresent(c) /\ Missing(o)) ~> Complete(c))

\* a call has ended with all its Responses while the other one sleeps in
\* the wait loop of a slice whose file is missing, having checked for it
C17_Witness ==
    \E c, o \in Calls :
        /\ c /= o
        /\ Complete(c) /\ Len(emitted[c]) >= 2
        /\ pc[o] = "sleep" /\ Missing(o)
        /\ \E ch \in checks[o] : ch.date = current_slice_date[o] /\ ~ch.found

(***************************************************************************)
(* C18.  The with statement closes the slice file on every way out of the  *)
(* for loop: at the end of the file, when a line fails to decode, and when *)
(* the generator of a consumer that stopped is finalized.  A call has a    *)
(* file open only between gzip.open and the end of that slice: none in the *)
(* wait loop, none once it has ended, failed or been finalized, and never  *)
(* a second one; the file it opens is one os.path.isfile found at that     *)
(* path.                                                                   *)
(***************************************************************************)
\* where the generator stands inside the with statement
InsideWith == {"read", "yield", "abandoned"}

C18_HandleInv ==
    \A c \in Calls :
        /\ file[c].open <=> pc[c] \in InsideWith
        /\ file[c].open
              => /\ Len(opens[c]) >= 1
                 /\ file[c].path = opens[c][Len(opens[c])].path
                 /\ opens[c][Len(opens[c])].date = current_slice_date[c]
                 /\ IsFile(file[c].path)
        /\ \A i \in 1..Len(opens[c]) :
              \E ch \in checks[c] : ch.found /\ ch.path = opens[c][i].path
        /\ \A i, j \in 1..Len(opens[c]) : i /= j => opens[c][i].path /= opens[c][j].path

C18_HandleStep ==
    \A c \in Calls :
        /\ opens'[c] /= opens[c]
              => /\ ~file[c].open /\ file'[c].open
                 /\ Len(opens'[c]) = Len(opens[c]) + 1
                 /\ \E ch \in checks[c] : ch.found /\ ch.path = file'[c].path
        /\ (file[c].open /\ file'[c].open) => file'[c].path = file[c].path
        /\ (file[c].open /\ pc'[c] \notin InsideWith)
              => /\ ~file'[c].open
                 /\ \/ pc[c] = "read" /\ pc'[c] = "loop" /\ file[c].pos = Len(FileLines(c))
                    \/ pc[c] = "read" /\ pc'[c] = "raised"
                    \/ pc[c] = "abandoned" /\ pc'[c] = "closed"

C18_FileIsReleased == []C18_HandleInv /\ [][C18_HandleStep]_vars

\* a consumer stopped in the middle of a slice and the generator was
\* finalized: the file is closed, lines of it unread
C18_Witness ==
    \E c \in Calls :
        /\ pc[c] = "closed"
        /\ ~file[c].open
        /\ Len(opens[c]) >= 1
        /\ EmittedOf(c, current_slice_date[c]) /= {}
        /\ Cardinality(EmittedOf(c, current_slice_date[c]))
              < Len(LinesOfFile[fs[opens[c][Len(opens[c])].path]])

(***************************************************************************)
(* C19.  replay only reads the cache: a step of a call (validation, the    *)
(* wait loop, opening, reading a line, the end of a slice, a failure, the  *)
(* consumer stopping, finalization) leaves every file and its content as   *)
(* they are; the cache changes by a step of the producer only, which adds  *)
(* one file, so each file holds what the producer wrote.                   *)
(***************************************************************************)
\* what call c and its consumer have done: its locals and its histories
Progress(c) ==
    <<pc[c], exc[c], current_slice_date[c], current_slice_path[c], file[c],
      messages_count[c], emitted[c], checks[c], opens[c], raised_at[c], failed_rule[c]>>

C19_CacheStep ==
    /\ (\E c \in Calls : Progress(c)' /= Progress(c)) => fs' = fs
    /\ fs' /= fs
          => /\ \A c \in Calls : Progress(c)' = Progress(c)
             /\ \A path \in DOMAIN fs : path \in DOMAIN fs' /\ fs'[path] = fs[path]
             /\ Cardinality(DOMAIN fs' \ DOMAIN fs) = 1

C19_CacheInv ==
    \A path \in DOMAIN fs :
        \E c \in Calls, k \in 0..(MaxSlices - 1) :
            path = SlicePath(c, k) /\ fs[path] = feed[k]

C19_CacheIsReadOnly == []C19_CacheInv /\ [][C19_CacheStep]_vars

\* a replay has gone through the wait loop, read two slices to their end
\* and ended, and the cache holds the files of all the slices
C19_Witness ==
    \E c \in Calls :
        /\ pc[c] = "done"
        /\ Len(opens[c]) >= 2
        /\ Len(emitted[c]) >= 2
        /\ \E ch \in checks[c] : ~ch.found
        /\ Cardinality(DOMAIN fs) = MaxSlices
====
